---- MODULE Spec2Model ----
(***************************************************************************)
(* MockSpokePoolClient: an injectable event source for a SpokePoolClient.  *)
(* Synthesis calls build events and hand them to the event manager (the    *)
(* Event Store); _update buckets the stored events by requested type; the  *)
(* override layer short-circuits fee, destination-token, deposit-id and    *)
(* latest-block lookups.                                                   *)
(*                                                                         *)
(* Every operation is one action.  The variables callOp, callOk, callArgs  *)
(* and callResult record the most recent call: its name, whether it        *)
(* returned or threw, its argument and the value it returned.              *)
(***************************************************************************)
EXTENDS Integers, Sequences, FiniteSets, TLC

VARIABLES
    events,                            \* eventManager: stored events, insertion order
    blockNumber,                       \* eventManager.blockNumber
    numberOfDeposits,                  \* this.numberOfDeposits
    realizedLpFeePct,                  \* this.realizedLpFeePct
    realizedLpFeePctOverride,          \* this.realizedLpFeePctOverride
    destinationTokenForChainOverride,  \* this.destinationTokenForChainOverride
    depositIdAtBlock,                  \* this.depositIdAtBlock
    latestBlockSearched,               \* this.latestBlockSearched
    blocks,                            \* this.blocks
    latestDepositIdQueried,            \* this.latestDepositIdQueried (inherited)
    toBlock,                           \* this.eventSearchConfig.toBlock (inherited)
    updatePass,                        \* the _update call in progress: its locals
    callOp,                            \* the most recent call: its name,
    callOk,                            \*   whether it returned (or threw),
    callArgs,                          \*   its argument,
    callResult                         \*   and the value it returned

vars == <<events, blockNumber, numberOfDeposits, realizedLpFeePct,
          realizedLpFeePctOverride, destinationTokenForChainOverride,
          depositIdAtBlock, latestBlockSearched, blocks,
          latestDepositIdQueried, toBlock, updatePass, callOp, callOk, callArgs, callResult>>

storeVars == <<events, blockNumber>>
overrideVars == <<realizedLpFeePct, realizedLpFeePctOverride,
                  destinationTokenForChainOverride, depositIdAtBlock,
                  latestBlockSearched>>

----------------------------------------------------------------------------
(* Bounds *)

MaxEvents == 2          \* events the store may hold
MaxDepositId == 2       \* largest depositId a caller supplies
MaxQuery == 2           \* longest eventsToQuery list
MaxIds == 3             \* longest list handed to setDepositIds
MaxIdValue == 2         \* largest id in a list handed to setDepositIds
MaxFee == 2             \* largest fee handed to setDefaultRealizedLpFeePct
MaxBatch == 2           \* longest batch handed to batchComputeRealizedLpFeePct

----------------------------------------------------------------------------
(* Values *)

\* JavaScript's undefined, for numeric and for string fields.
Undefined == 0 - 1
UndefinedStr == "undefined"

\* Constructor arguments.
chainId == 1
deploymentBlock == 0

ZERO_ADDRESS == "0x0"

Max(a, b) == IF a >= b THEN a ELSE b

\* `x ?? y`
Coalesce(x, y) == IF x = Undefined THEN y ELSE x

----------------------------------------------------------------------------
(* Event manager *)

\* The block of an event: the caller's, or the next one when unset.
ResolveBlockNumber(bn) == IF bn = Undefined THEN blockNumber + 1 ELSE bn

\* The event object built and stored by generateEvent.
GeneratedEvent(event, topics, args, bn) ==
    [event |-> event, topics |-> topics, args |-> args,
     blockNumber |-> ResolveBlockNumber(bn)]

\* eventManager.generateEvent: append one event, advance the block counter.
generateEvent(event, topics, args, bn) ==
    /\ events' = Append(events, GeneratedEvent(event, topics, args, bn))
    /\ blockNumber' = Max(blockNumber, ResolveBlockNumber(bn))

----------------------------------------------------------------------------
(* Calls *)

\* The call returns `result`.
Returned(op, args, result) ==
    /\ callOp' = op
    /\ callOk' = TRUE
    /\ callArgs' = args
    /\ callResult' = result

\* The call throws.
Threw(op, args) ==
    /\ callOp' = op
    /\ callOk' = FALSE
    /\ callArgs' = args
    /\ callResult' = Undefined

----------------------------------------------------------------------------
(* depositV3 *)

RandomChainIds == {42161}
RandomAddresses == {"0xA"}
OriginChainIds == {Undefined}
\* blockNumber as a caller passes it: unset, or a block of its choice.
BlockNumbers == {Undefined, 1}

\* toBNWei(random(1, 1000, false))
RandomAmounts == {1000}

DepositInputs ==
    [depositId : {Undefined} \cup 0..MaxDepositId,
     originChainId : OriginChainIds,
     inputAmount : {Undefined},
     outputAmount : {Undefined},
     blockNumber : BlockNumbers]

\* Deposits that set or leave unset their amounts.
AmountDepositInputs ==
    [depositId : {Undefined} \cup 0..MaxDepositId,
     originChainId : OriginChainIds,
     inputAmount : {Undefined, 1000, 200},
     outputAmount : {Undefined, 900},
     blockNumber : {Undefined}]

\* inputAmount.mul(toBN("0.95")): the amount less the stand-in relay fee.
MulToBN095(amount) == (amount * 95) \div 100

\* An output amount that defaults to the input amount, no fee taken.
DepositOutputAmountNoFee(deposit, inputAmount) ==
    Coalesce(deposit.outputAmount, inputAmount)

\* outputAmount ??= inputAmount.mul(toBN("0.95"))
DepositOutputAmount(deposit, inputAmount) ==
    Coalesce(deposit.outputAmount, MulToBN095(inputAmount))

\* depositId ??= this.numberOfDeposits
DepositIdOrDefault(deposit) == Coalesce(deposit.depositId, numberOfDeposits)

\* An assertion that lets every id through.
DepositIdAcceptedUnchecked(depositId) == TRUE

\* An assertion that lets the last id through again.
DepositIdAcceptedOffByOne(depositId) == depositId >= numberOfDeposits - 1

\* assert(depositId >= this.numberOfDeposits)
DepositIdAccepted(depositId) == depositId >= numberOfDeposits

\* A counter left where it was.
NextNumberOfDepositsStale(depositId) == numberOfDeposits

\* this.numberOfDeposits = depositId + 1
NextNumberOfDeposits(depositId) == depositId + 1

depositV3(deposit) ==
    LET depositId == DepositIdOrDefault(deposit) IN
    IF ~DepositIdAccepted(depositId)
    THEN /\ Threw("depositV3", deposit)
         /\ UNCHANGED <<storeVars, numberOfDeposits, overrideVars, blocks,
                        latestDepositIdQueried, toBlock, updatePass>>
    ELSE /\ Len(events) < MaxEvents
         /\ numberOfDeposits' = NextNumberOfDeposits(depositId)
         /\ \E destinationChainId \in RandomChainIds, depositor \in RandomAddresses,
               rAmount \in RandomAmounts :
              LET inputAmount == Coalesce(deposit.inputAmount, rAmount)
                  outputAmount == DepositOutputAmount(deposit, inputAmount)
                  topics == <<ToString(destinationChainId), ToString(depositId), depositor>>
                  args == [depositId |-> depositId,
                           originChainId |-> Coalesce(deposit.originChainId, chainId),
                           destinationChainId |-> destinationChainId,
                           depositor |-> depositor,
                           inputAmount |-> inputAmount,
                           outputAmount |-> outputAmount]
              IN /\ generateEvent("V3FundsDeposited", topics, args, deposit.blockNumber)
                 /\ Returned("depositV3", deposit,
                                GeneratedEvent("V3FundsDeposited", topics, args,
                                               deposit.blockNumber))
         /\ UNCHANGED <<overrideVars, blocks, latestDepositIdQueried, toBlock, updatePass>>

DepositV3 == \E deposit \in DepositInputs : depositV3(deposit)

DepositV3UnsetId ==
    \E deposit \in DepositInputs : deposit.depositId = Undefined /\ depositV3(deposit)

DepositV3Amounts == \E deposit \in AmountDepositInputs : depositV3(deposit)

----------------------------------------------------------------------------
(* fillV3Relay *)

RandomDepositIds == {7}
FillTypes == {"FastFill", "SlowFill"}

\* A fill as the caller hands it over.  fillType and updatedOutputAmount are
\* the fields of fill.relayExecutionInfo, undefined when it is absent.
FillInputs ==
    [depositId : {Undefined},
     originChainId : {Undefined},
     inputAmount : {Undefined},
     outputAmount : {Undefined},
     relayer : {UndefinedStr},
     repaymentChainId : {Undefined},
     updatedOutputAmount : {Undefined},
     fillType : {UndefinedStr, "SlowFill"},
     blockNumber : {Undefined}]

\* Fills that set or leave unset their amounts and their fill type.
AnyFillInputs ==
    [depositId : {Undefined},
     originChainId : {Undefined},
     inputAmount : {Undefined, 1000},
     outputAmount : {Undefined, 900},
     relayer : {UndefinedStr},
     repaymentChainId : {Undefined},
     updatedOutputAmount : {Undefined},
     fillType : {UndefinedStr} \cup FillTypes,
     blockNumber : {Undefined}]

CoalesceStr(x, y) == IF x = UndefinedStr THEN y ELSE x

\* `x || y` on a number: 0 is replaced too.
RepaymentChainIdOr(fill) ==
    IF fill.repaymentChainId = Undefined \/ fill.repaymentChainId = 0
    THEN chainId ELSE fill.repaymentChainId

\* repaymentChainId: fill.repaymentChainId ?? this.chainId
RepaymentChainId(fill) == Coalesce(fill.repaymentChainId, chainId)

\* A fill type that defaults to SlowFill.
FillTypeOrSlowFill(fill) == CoalesceStr(fill.fillType, "SlowFill")

\* fillType: fill.relayExecutionInfo?.fillType ?? FillType.FastFill
FillTypeOrDefault(fill) == CoalesceStr(fill.fillType, "FastFill")

fillV3Relay(op, input, fill) ==
    /\ Len(events) < MaxEvents
    /\ \E rOrigin \in RandomChainIds, rDepositId \in RandomDepositIds,
          rAmount \in RandomAmounts, rRelayer \in RandomAddresses :
         LET originChainId == Coalesce(fill.originChainId, rOrigin)
             depositId == Coalesce(fill.depositId, rDepositId)
             inputAmount == Coalesce(fill.inputAmount, rAmount)
             outputAmount == Coalesce(fill.outputAmount, inputAmount)
             relayer == CoalesceStr(fill.relayer, rRelayer)
             topics == <<ToString(originChainId), ToString(depositId), relayer>>
             args == [inputAmount |-> fill.inputAmount,
                      outputAmount |-> fill.outputAmount,
                      repaymentChainId |-> RepaymentChainId(fill),
                      originChainId |-> originChainId,
                      depositId |-> depositId,
                      relayer |-> relayer,
                      relayExecutionInfo |->
                          [updatedOutputAmount |->
                               Coalesce(fill.updatedOutputAmount, outputAmount),
                           fillType |-> FillTypeOrDefault(fill)]]
         IN /\ generateEvent("FilledV3Relay", topics, args, fill.blockNumber)
            /\ Returned(op, input,
                           GeneratedEvent("FilledV3Relay", topics, args, fill.blockNumber))
    /\ UNCHANGED <<numberOfDeposits, overrideVars, blocks, latestDepositIdQueried, toBlock, updatePass>>

FillV3Relay == \E fill \in FillInputs : fillV3Relay("fillV3Relay", fill, fill)

FillV3RelayAny == \E fill \in AnyFillInputs : fillV3Relay("fillV3Relay", fill, fill)

----------------------------------------------------------------------------
(* executeV3SlowRelayLeaf *)

\* Slow-fill leaves: the relay data of a deposit and the updated output amount.
SlowFillLeaves ==
    [relayData : [depositId : {0, 1},
                  originChainId : {10},
                  inputAmount : {1000},
                  outputAmount : {900}],
     updatedOutputAmount : {800}]

\* The fill built from a leaf.
SlowFillOf(leaf) ==
    [depositId |-> leaf.relayData.depositId,
     originChainId |-> leaf.relayData.originChainId,
     inputAmount |-> leaf.relayData.inputAmount,
     outputAmount |-> leaf.relayData.outputAmount,
     relayer |-> ZERO_ADDRESS,
     repaymentChainId |-> 0,
     updatedOutputAmount |-> leaf.updatedOutputAmount,
     fillType |-> "SlowFill",
     blockNumber |-> Undefined]

executeV3SlowRelayLeaf(leaf) == fillV3Relay("executeV3SlowRelayLeaf", leaf, SlowFillOf(leaf))

ExecuteV3SlowRelayLeaf == \E leaf \in SlowFillLeaves : executeV3SlowRelayLeaf(leaf)

----------------------------------------------------------------------------
(* speedUpV3Deposit, requestV3SlowFill, setEnableRoute *)

SpeedUps == [depositId : {0}, depositor : {"0xA"}, updatedOutputAmount : {900}]

\* A speed-up that is returned but not handed to the event manager.
speedUpV3DepositUnstored(speedUp) ==
    /\ Len(events) < MaxEvents
    /\ LET topics == <<ToString(speedUp.depositId), speedUp.depositor>>
       IN Returned("speedUpV3Deposit", speedUp,
                   GeneratedEvent("RequestedSpeedUpV3Deposit", topics, speedUp, Undefined))
    /\ UNCHANGED <<storeVars, numberOfDeposits, overrideVars, blocks,
                   latestDepositIdQueried, toBlock, updatePass>>

speedUpV3Deposit(speedUp) ==
    /\ Len(events) < MaxEvents
    /\ LET topics == <<ToString(speedUp.depositId), speedUp.depositor>>
           args == speedUp
       IN /\ generateEvent("RequestedSpeedUpV3Deposit", topics, args, Undefined)
          /\ Returned("speedUpV3Deposit", speedUp,
                      GeneratedEvent("RequestedSpeedUpV3Deposit", topics, args, Undefined))
    /\ UNCHANGED <<numberOfDeposits, overrideVars, blocks, latestDepositIdQueried, toBlock, updatePass>>

SpeedUpV3Deposit == \E speedUp \in SpeedUps : speedUpV3Deposit(speedUp)

SlowFillRequests == [originChainId : {10}, depositId : {0}, blockNumber : {Undefined}]

requestV3SlowFill(request) ==
    /\ Len(events) < MaxEvents
    /\ LET topics == <<ToString(request.originChainId), ToString(request.depositId)>>
           args == request
       IN /\ generateEvent("RequestedV3SlowFill", topics, args, request.blockNumber)
          /\ Returned("requestV3SlowFill", request,
                      GeneratedEvent("RequestedV3SlowFill", topics, args,
                                     request.blockNumber))
    /\ UNCHANGED <<numberOfDeposits, overrideVars, blocks, latestDepositIdQueried, toBlock, updatePass>>

RequestV3SlowFill == \E request \in SlowFillRequests : requestV3SlowFill(request)

Routes ==
    [originToken : {"0xT1"}, destinationChainId : {10}, enabled : {TRUE},
     blockNumber : {Undefined}]

\* setEnableRoute(originToken, destinationChainId, enabled, overrides)
setEnableRoute(route) ==
    /\ Len(events) < MaxEvents
    /\ LET topics == <<route.originToken, ToString(route.destinationChainId)>>
           args == [originToken |-> route.originToken,
                    destinationChainId |-> route.destinationChainId,
                    enabled |-> route.enabled]
       IN /\ generateEvent("EnabledDepositRoute", topics, args, route.blockNumber)
          /\ Returned("setEnableRoute", route,
                      GeneratedEvent("EnabledDepositRoute", topics, args, route.blockNumber))
    /\ UNCHANGED <<numberOfDeposits, overrideVars, blocks, latestDepositIdQueried, toBlock, updatePass>>

SetEnableRoute == \E route \in Routes : setEnableRoute(route)

----------------------------------------------------------------------------
(* executeRelayerRefundLeaf *)

RefundInputs ==
    [chainId : {Undefined, chainId, chainId + 1},
     rootBundleId : {0},
     leafId : {0},
     blockNumber : {Undefined}]

\* const chainId = refund.chainId ?? this.chainId
RefundChainId(refund) == Coalesce(refund.chainId, chainId)

\* An assertion that lets every chain id through.
RefundChainIdAcceptedUnchecked(refundChainId) == TRUE

\* assert(chainId === this.chainId)
RefundChainIdAccepted(refundChainId) == refundChainId = chainId

\* const topics = [chainId, rootBundleId, leafId]; topics.map(toString)
RefundTopics(refundChainId, refund) ==
    <<ToString(refundChainId), ToString(refund.rootBundleId), ToString(refund.leafId)>>

executeRelayerRefundLeaf(refund) ==
    LET refundChainId == RefundChainId(refund) IN
    IF ~RefundChainIdAccepted(refundChainId)
    THEN /\ Threw("executeRelayerRefundLeaf", refund)
         /\ UNCHANGED <<storeVars, numberOfDeposits, overrideVars, blocks,
                        latestDepositIdQueried, toBlock, updatePass>>
    ELSE /\ Len(events) < MaxEvents
         /\ LET topics == RefundTopics(refundChainId, refund)
                args == [chainId |-> refundChainId,
                         rootBundleId |-> refund.rootBundleId,
                         leafId |-> refund.leafId]
            IN /\ generateEvent("ExecutedRelayerRefundRoot", topics, args, refund.blockNumber)
               /\ Returned("executeRelayerRefundLeaf", refund,
                              GeneratedEvent("ExecutedRelayerRefundRoot", topics, args,
                                             refund.blockNumber))
         /\ UNCHANGED <<numberOfDeposits, overrideVars, blocks,
                        latestDepositIdQueried, toBlock, updatePass>>

ExecuteRelayerRefundLeaf == \E refund \in RefundInputs : executeRelayerRefundLeaf(refund)

----------------------------------------------------------------------------
(* _update *)

\* The event names a caller requests; stored events of other types are skipped.
QueryNames == {"V3FundsDeposited", "FilledV3Relay"}

\* The lists of event names a caller may request, repeats included.
QueryLists == UNION {[1..n -> QueryNames] : n \in 0..MaxQuery}

\* Array.prototype.indexOf: the 0-based position of the first x, or -1.
IndexOf(list, x) ==
    IF \E i \in 1..Len(list) : list[i] = x
    THEN (CHOOSE i \in 1..Len(list) :
              /\ list[i] = x
              /\ \A j \in 1..(i - 1) : list[j] # x) - 1
    ELSE 0 - 1

\* lastIndexOf in place of indexOf.
BucketIndexLast(eventsToQuery, event) ==
    IF \E i \in 1..Len(eventsToQuery) : eventsToQuery[i] = event.event
    THEN (CHOOSE i \in 1..Len(eventsToQuery) :
              /\ eventsToQuery[i] = event.event
              /\ \A j \in (i + 1)..Len(eventsToQuery) : eventsToQuery[j] # event.event) - 1
    ELSE 0 - 1

\* The bucket an event is pushed to: eventsToQuery.indexOf(event.event).
BucketIndex(eventsToQuery, event) == IndexOf(eventsToQuery, event.event)

\* The pass over the stored events: each one is pushed to the bucket of its
\* type, and its block is recorded, when its type was requested.
RECURSIVE Bucketed(_, _, _)
Bucketed(stored, eventsToQuery, acc) ==
    IF stored = <<>> THEN acc
    ELSE LET event == Head(stored)
             idx == BucketIndex(eventsToQuery, event)
         IN Bucketed(Tail(stored), eventsToQuery,
                IF idx # 0 - 1
                THEN [events |-> [acc.events EXCEPT ![idx + 1] = Append(@, event)],
                      blocks |-> acc.blocks \cup {event.blockNumber}]
                ELSE acc)

\* event.getBlock()
Block(n) == [number |-> n]

\* A block map that keeps the entries of earlier passes.
StoredBlocksMerged(old, passBlocks) == [n \in (DOMAIN old) \cup passBlocks |-> Block(n)]

\* this.blocks = blocks: the map built by this pass replaces the stored one.
StoredBlocks(old, passBlocks) == [n \in passBlocks |-> Block(n)]

\* The first bucket taken for the deposits, wherever they were requested.
DepositBucketFirst(buckets, eventsToQuery) ==
    IF Len(buckets) = 0 THEN <<>> ELSE buckets[1]

\* events[idx] ?? [] for idx = eventsToQuery.indexOf("V3FundsDeposited")
DepositBucket(buckets, eventsToQuery) ==
    LET idx == IndexOf(eventsToQuery, "V3FundsDeposited")
    IN IF idx = 0 - 1 THEN <<>> ELSE buckets[idx + 1]

\* reduce((depositId, event) => Math.max(depositId, event.args.depositId), start)
RECURSIVE ReduceMaxDepositId(_, _)
ReduceMaxDepositId(bucket, start) ==
    IF bucket = <<>> THEN start
    ELSE ReduceMaxDepositId(Tail(bucket), Max(start, Head(bucket).args.depositId))

\* A reduce that starts from 0 instead of the recorded high-water mark.
LatestDepositIdFromZero(bucket) == ReduceMaxDepositId(bucket, 0)

\* (events[idx] ?? []).reduce(..., this.latestDepositIdQueried)
LatestDepositId(bucket) == ReduceMaxDepositId(bucket, latestDepositIdQueried)

\* this.eventSearchConfig.toBlock || latestBlockSearched
SearchEndBlock(latest) == IF toBlock = Undefined \/ toBlock = 0 THEN latest ELSE toBlock

\* The outcome of the pass over the store for a requested list.
Pass(eventsToQuery) ==
    Bucketed(events, eventsToQuery,
             [events |-> [i \in 1..Len(eventsToQuery) |-> <<>>], blocks |-> {}])

\* The SpokePoolUpdate returned (currentTime, the wall clock, left out).
Snapshot(eventsToQuery) ==
    LET pass == Pass(eventsToQuery)
    IN [success |-> TRUE,
        firstDepositId |-> 0,
        latestDepositId |->
            LatestDepositId(DepositBucket(pass.events, eventsToQuery)),
        oldestTime |-> 0,
        events |-> pass.events,
        searchEndBlock |-> SearchEndBlock(blockNumber),
        hasCCTPBridgingEnabled |-> FALSE]

_update(eventsToQuery) ==
    /\ blocks' = StoredBlocks(blocks, Pass(eventsToQuery).blocks)
    /\ Returned("_update", eventsToQuery, Snapshot(eventsToQuery))
    /\ UNCHANGED <<storeVars, numberOfDeposits, overrideVars, latestDepositIdQueried,
                   toBlock, updatePass>>

Update == \E eventsToQuery \in QueryLists : _update(eventsToQuery)

\* Requests for one event type.
SingleQueryLists == {<<name>> : name \in QueryNames}

UpdateSingle == \E eventsToQuery \in SingleQueryLists : _update(eventsToQuery)

\* SpokePoolClient.update: take a snapshot and record its latestDepositId as
\* the high-water mark for the next one.
update(eventsToQuery) ==
    /\ blocks' = StoredBlocks(blocks, Pass(eventsToQuery).blocks)
    /\ Returned("update", eventsToQuery, Snapshot(eventsToQuery))
    /\ latestDepositIdQueried' = callResult'.latestDepositId
    /\ UNCHANGED <<storeVars, numberOfDeposits, overrideVars, toBlock, updatePass>>

ClientUpdate == \E eventsToQuery \in QueryLists : update(eventsToQuery)

----------------------------------------------------------------------------
(* _update, step by step: the callbacks of forEachAsync and their awaits *)

\* No _update call has started.
NoPass ==
    [pc |-> "idle", eventsToQuery |-> <<>>, stored |-> <<>>, started |-> 0,
     pending |-> {}, completed |-> <<>>, events |-> <<>>, blocks |-> {},
     latestBlockSearched |-> deploymentBlock]

\* The end blocks a test may configure: none, block 0, a later block.
ToBlocks == {Undefined, 0, 7}

\* eventSearchConfig.toBlock is assigned.
SetToBlock ==
    \E b \in ToBlocks :
        /\ toBlock' = b
        /\ Returned("eventSearchConfig.toBlock", b, Undefined)
        /\ UNCHANGED <<storeVars, numberOfDeposits, overrideVars, blocks,
                       latestDepositIdQueried, updatePass>>

\* The entry of _update: the locals, and the flattened copy of the store
\* handed to forEachAsync.
_updateStart(eventsToQuery) ==
    /\ updatePass.pc = "idle"
    /\ updatePass' =
           [pc |-> "running", eventsToQuery |-> eventsToQuery, stored |-> events,
            started |-> 0, pending |-> {}, completed |-> <<>>,
            events |-> [i \in 1..Len(eventsToQuery) |-> <<>>], blocks |-> {},
            latestBlockSearched |-> blockNumber]
    /\ UNCHANGED <<storeVars, numberOfDeposits, overrideVars, blocks,
                   latestDepositIdQueried, toBlock,
                   callOp, callOk, callArgs, callResult>>

UpdateStart == \E eventsToQuery \in QueryLists : _updateStart(eventsToQuery)

\* A callback that pushes its event only once its lookup has completed.
CallbackBucketsPushLate(phase, buckets, idx, event) ==
    IF phase = "resumed" THEN [buckets EXCEPT ![idx + 1] = Append(@, event)]
    ELSE buckets

\* The buckets after one part of a callback: events[idx].push(event) runs
\* before the await, nothing touches the buckets after it.
CallbackBuckets(phase, buckets, idx, event) ==
    IF phase = "sync" THEN [buckets EXCEPT ![idx + 1] = Append(@, event)]
    ELSE buckets

\* forEachAsync starts the callbacks in array order.  A callback runs up to
\* its await: an event of a requested type is pushed and its lookup is left
\* pending; any other event is skipped.
_updateCallback ==
    /\ updatePass.pc = "running"
    /\ updatePass.started < Len(updatePass.stored)
    /\ LET k == updatePass.started + 1
           event == updatePass.stored[k]
           idx == BucketIndex(updatePass.eventsToQuery, event)
       IN updatePass' =
              IF idx # 0 - 1
              THEN [updatePass EXCEPT
                        !.started = k,
                        !.events = CallbackBuckets("sync", @, idx, event),
                        !.pending = @ \cup {k}]
              ELSE [updatePass EXCEPT !.started = k]
    /\ UNCHANGED <<storeVars, numberOfDeposits, overrideVars, blocks,
                   latestDepositIdQueried, toBlock,
                   callOp, callOk, callArgs, callResult>>

\* A pending event.getBlock() completes, whichever it is: the callback
\* resumes and writes blocks[event.blockNumber].
_updateLookupDone ==
    /\ updatePass.pc = "running"
    /\ \E k \in updatePass.pending :
         LET event == updatePass.stored[k]
             idx == BucketIndex(updatePass.eventsToQuery, event)
         IN updatePass' =
                [updatePass EXCEPT
                     !.pending = @ \ {k},
                     !.completed = Append(@, k),
                     !.events = CallbackBuckets("resumed", @, idx, event),
                     !.blocks = @ \cup {event.blockNumber}]
    /\ UNCHANGED <<storeVars, numberOfDeposits, overrideVars, blocks,
                   latestDepositIdQueried, toBlock,
                   callOp, callOk, callArgs, callResult>>

\* Every callback has completed: this.blocks is replaced and the snapshot
\* is returned.
_updateReturn ==
    /\ updatePass.pc = "running"
    /\ updatePass.started = Len(updatePass.stored)
    /\ updatePass.pending = {}
    /\ blocks' = StoredBlocks(blocks, updatePass.blocks)
    /\ Returned("_update", updatePass.eventsToQuery,
                [success |-> TRUE,
                 firstDepositId |-> 0,
                 latestDepositId |->
                     LatestDepositId(DepositBucket(updatePass.events,
                                                   updatePass.eventsToQuery)),
                 oldestTime |-> 0,
                 events |-> updatePass.events,
                 searchEndBlock |-> SearchEndBlock(updatePass.latestBlockSearched),
                 hasCCTPBridgingEnabled |-> FALSE])
    /\ updatePass' = [updatePass EXCEPT !.pc = "idle"]
    /\ UNCHANGED <<storeVars, numberOfDeposits, overrideVars,
                   latestDepositIdQueried, toBlock>>

----------------------------------------------------------------------------
(* Relay-fee override *)

synthesisVars == <<storeVars, numberOfDeposits, blocks, latestDepositIdQueried, toBlock, updatePass>>

\* Deposit events handed to the fee computations.
FeeDepositEvents == [blockNumber : {1, 2}, args : [depositId : {0, 1}]]
FeeBatches == UNION {[1..n -> FeeDepositEvents] : n \in 0..MaxBatch}

\* SpokePoolClient.computeRealizedLpFeePct: the fee and the quote block the
\* non-mock client derives for a deposit.
SuperComputeRealizedLpFeePct(depositEvent) ==
    [realizedLpFeePct |-> 10 + depositEvent.args.depositId,
     quoteBlock |-> 100 + depositEvent.blockNumber]

\* SpokePoolClient.batchComputeRealizedLpFeePct
SuperBatchComputeRealizedLpFeePct(depositEvents) ==
    [i \in 1..Len(depositEvents) |-> SuperComputeRealizedLpFeePct(depositEvents[i])]

setDefaultRealizedLpFeePct(fee) ==
    /\ realizedLpFeePct' = fee
    /\ realizedLpFeePctOverride' = TRUE
    /\ Returned("setDefaultRealizedLpFeePct", fee, Undefined)
    /\ UNCHANGED <<synthesisVars, destinationTokenForChainOverride, depositIdAtBlock,
                   latestBlockSearched>>

SetDefaultRealizedLpFeePct == \E fee \in 0..MaxFee : setDefaultRealizedLpFeePct(fee)

\* The flag left by clearDefaultRealizedLpFeePct.
ClearedOverride == FALSE

ClearDefaultRealizedLpFeePct ==
    /\ realizedLpFeePctOverride' = ClearedOverride
    /\ Returned("clearDefaultRealizedLpFeePct", Undefined, Undefined)
    /\ UNCHANGED <<synthesisVars, realizedLpFeePct, destinationTokenForChainOverride,
                   depositIdAtBlock, latestBlockSearched>>

\* The configured fee paired with the derived quote block.
OverriddenFeeDerivedBlock(depositEvent) ==
    [realizedLpFeePct |-> realizedLpFeePct,
     quoteBlock |-> SuperComputeRealizedLpFeePct(depositEvent).quoteBlock]

\* { realizedLpFeePct, quoteBlock } with quoteBlock the event's blockNumber
OverriddenFee(depositEvent) ==
    [realizedLpFeePct |-> realizedLpFeePct, quoteBlock |-> depositEvent.blockNumber]

RealizedLpFeePct(depositEvent) ==
    IF realizedLpFeePctOverride
    THEN OverriddenFee(depositEvent)
    ELSE SuperComputeRealizedLpFeePct(depositEvent)

BatchRealizedLpFeePct(depositEvents) ==
    IF realizedLpFeePctOverride
    THEN [i \in 1..Len(depositEvents) |-> OverriddenFee(depositEvents[i])]
    ELSE SuperBatchComputeRealizedLpFeePct(depositEvents)

computeRealizedLpFeePct(depositEvent) ==
    /\ Returned("computeRealizedLpFeePct", depositEvent,
                        RealizedLpFeePct(depositEvent))
    /\ UNCHANGED <<synthesisVars, overrideVars>>

ComputeRealizedLpFeePct ==
    \E depositEvent \in FeeDepositEvents : computeRealizedLpFeePct(depositEvent)

batchComputeRealizedLpFeePct(depositEvents) ==
    /\ Returned("batchComputeRealizedLpFeePct", depositEvents,
                        BatchRealizedLpFeePct(depositEvents))
    /\ UNCHANGED <<synthesisVars, overrideVars>>

BatchComputeRealizedLpFeePct ==
    \E depositEvents \in FeeBatches : batchComputeRealizedLpFeePct(depositEvents)

----------------------------------------------------------------------------
(* Destination-token override *)

OverrideChainIds == {1, 10}
DepositOriginChainIds == {1, 10, 137}
Tokens == {"0xT1", "0xT2"}

\* SpokePoolClient.getDestinationTokenForDeposit: the default resolution.
SuperGetDestinationTokenForDeposit(deposit) == "0xL2"

\* A set that replaces the whole mapping.
WithDestinationTokenOnly(override, chain, token) == [c \in {chain} |-> token]

\* this.destinationTokenForChainOverride[chainId] = token
WithDestinationToken(override, chain, token) ==
    [c \in (DOMAIN override) \cup {chain} |-> IF c = chain THEN token ELSE override[c]]

setDestinationTokenForChain(chain, token) ==
    /\ destinationTokenForChainOverride' =
           WithDestinationToken(destinationTokenForChainOverride, chain, token)
    /\ Returned("setDestinationTokenForChain",
                        [chainId |-> chain, token |-> token], Undefined)
    /\ UNCHANGED <<synthesisVars, realizedLpFeePct, realizedLpFeePctOverride,
                   depositIdAtBlock, latestBlockSearched>>

SetDestinationTokenForChain ==
    \E chain \in OverrideChainIds, token \in Tokens :
        setDestinationTokenForChain(chain, token)

\* this.destinationTokenForChainOverride[deposit.originChainId] ?? super...
DestinationTokenForDeposit(deposit) ==
    IF deposit.originChainId \in DOMAIN destinationTokenForChainOverride
    THEN destinationTokenForChainOverride[deposit.originChainId]
    ELSE SuperGetDestinationTokenForDeposit(deposit)

getDestinationTokenForDeposit(deposit) ==
    /\ Returned("getDestinationTokenForDeposit", deposit,
                        DestinationTokenForDeposit(deposit))
    /\ UNCHANGED <<synthesisVars, overrideVars>>

GetDestinationTokenForDeposit ==
    \E deposit \in [originChainId : DepositOriginChainIds] :
        getDestinationTokenForDeposit(deposit)

----------------------------------------------------------------------------
(* Latest-block-number override *)

LatestBlockNumbers == {5, 6}

\* A setter that also resets the deposit-id-at-block table.
setLatestBlockNumberAndTable(n) ==
    /\ latestBlockSearched' = n
    /\ depositIdAtBlock' = <<>>
    /\ Returned("setLatestBlockNumber", n, Undefined)
    /\ UNCHANGED <<synthesisVars, realizedLpFeePct, realizedLpFeePctOverride,
                   destinationTokenForChainOverride>>

setLatestBlockNumber(n) ==
    /\ latestBlockSearched' = n
    /\ Returned("setLatestBlockNumber", n, Undefined)
    /\ UNCHANGED <<synthesisVars, realizedLpFeePct, realizedLpFeePctOverride,
                   destinationTokenForChainOverride, depositIdAtBlock>>

SetLatestBlockNumber == \E n \in LatestBlockNumbers : setLatestBlockNumber(n)

----------------------------------------------------------------------------
(* Deposit-id-at-block table *)

DepositIdLists == UNION {[1..n -> 0..MaxIdValue] : n \in 0..MaxIds}

\* A table that is not reset.
UnclearedTable(table) == table

\* this.depositIdAtBlock = []
ClearedTable(table) == <<>>

\* array[i] = value, for i at most the array's length (0-based)
SetAt(array, i, value) ==
    IF i + 1 \in 1..Len(array) THEN [array EXCEPT ![i + 1] = value]
    ELSE Append(array, value)

\* The loop of setDepositIds from position i (1-based here) on: the table it
\* leaves and whether it threw.
RECURSIVE SetDepositIdsLoop(_, _, _, _)
SetDepositIdsLoop(depositIds, i, lastDepositId, table) ==
    IF i > Len(depositIds) THEN [table |-> table, threw |-> FALSE]
    ELSE IF depositIds[i] < lastDepositId THEN [table |-> table, threw |-> TRUE]
    ELSE SetDepositIdsLoop(depositIds, i + 1, depositIds[i],
                           SetAt(table, i - 1, depositIds[i]))

SetDepositIdsOutcome(depositIds) ==
    LET cleared == ClearedTable(depositIdAtBlock) IN
    IF Len(depositIds) = 0 THEN [table |-> cleared, threw |-> FALSE]
    ELSE SetDepositIdsLoop(depositIds, 1, depositIds[1], cleared)

setDepositIds(depositIds) ==
    LET outcome == SetDepositIdsOutcome(depositIds) IN
    /\ depositIdAtBlock' = outcome.table
    /\ IF outcome.threw THEN Threw("setDepositIds", depositIds)
       ELSE Returned("setDepositIds", depositIds, Undefined)
    /\ UNCHANGED <<synthesisVars, realizedLpFeePct, realizedLpFeePctOverride,
                   destinationTokenForChainOverride, latestBlockSearched>>

SetDepositIds == \E depositIds \in DepositIdLists : setDepositIds(depositIds)

\* this.depositIdAtBlock[blockTag], undefined past the end
DepositIdAtBlock(blockTag) ==
    IF blockTag + 1 \in 1..Len(depositIdAtBlock)
    THEN depositIdAtBlock[blockTag + 1]
    ELSE Undefined

_getDepositIdAtBlock(blockTag) ==
    /\ Returned("_getDepositIdAtBlock", blockTag, DepositIdAtBlock(blockTag))
    /\ UNCHANGED <<synthesisVars, overrideVars>>

GetDepositIdAtBlock == \E blockTag \in 0..MaxIds : _getDepositIdAtBlock(blockTag)

----------------------------------------------------------------------------

Init ==
    /\ events = <<>>
    /\ blockNumber = deploymentBlock
    /\ numberOfDeposits = 0
    /\ realizedLpFeePct = 0
    /\ realizedLpFeePctOverride = FALSE
    /\ destinationTokenForChainOverride = <<>>
    /\ depositIdAtBlock = <<>>
    /\ latestBlockSearched = deploymentBlock
    /\ blocks = <<>>
    /\ latestDepositIdQueried = 0
    /\ toBlock = Undefined
    /\ updatePass = NoPass
    /\ callOp = "constructor"
    /\ callOk = TRUE
    /\ callArgs = Undefined
    /\ callResult = Undefined

Next ==
    \/ DepositV3
    \/ FillV3Relay
    \/ ExecuteRelayerRefundLeaf
    \/ Update
    \/ ClientUpdate

Spec == Init /\ [][Next]_vars

\* Deposits that leave depositId unset, among the other synthesis calls.
NextUnsetIds ==
    \/ \E deposit \in DepositInputs : deposit.depositId = Undefined /\ depositV3(deposit)
    \/ FillV3Relay
    \/ ExecuteRelayerRefundLeaf
    \/ Update

SpecUnsetIds == Init /\ [][NextUnsetIds]_vars

\* The fee, destination-token and latest-block overrides.
NextOverride ==
    \/ SetDefaultRealizedLpFeePct
    \/ ClearDefaultRealizedLpFeePct
    \/ ComputeRealizedLpFeePct
    \/ BatchComputeRealizedLpFeePct
    \/ SetDestinationTokenForChain
    \/ GetDestinationTokenForDeposit
    \/ SetLatestBlockNumber

SpecOverride == Init /\ [][NextOverride]_vars

\* Deposits with their amounts set or unset.
NextDeposit == DepositV3Amounts

SpecDeposit == Init /\ [][NextDeposit]_vars

\* Fills, direct and from slow-fill leaves.
NextFill ==
    \/ FillV3RelayAny
    \/ ExecuteV3SlowRelayLeaf

SpecFill == Init /\ [][NextFill]_vars

\* The configured end block of the search.
NextSearchEnd ==
    \/ DepositV3UnsetId
    \/ SetToBlock
    \/ Update

SpecSearchEnd == Init /\ [][NextSearchEnd]_vars

\* _update step by step, with synthesis calls between its steps.
NextAsync ==
    \/ DepositV3UnsetId
    \/ FillV3Relay
    \/ UpdateStart
    \/ _updateCallback
    \/ _updateLookupDone
    \/ _updateReturn

SpecAsync == Init /\ [][NextAsync]_vars

\* One call of each synthesis operation, its optional fields unset.
ClientSynthesis ==
    \/ \E deposit \in DepositInputs :
           /\ deposit.depositId = Undefined
           /\ deposit.blockNumber = Undefined
           /\ depositV3(deposit)
    \/ \E fill \in FillInputs : fill.fillType = UndefinedStr /\ fillV3Relay("fillV3Relay", fill, fill)
    \/ SpeedUpV3Deposit
    \/ RequestV3SlowFill
    \/ \E leaf \in SlowFillLeaves : leaf.relayData.depositId = 0 /\ executeV3SlowRelayLeaf(leaf)
    \/ \E leaf \in RefundInputs : executeRelayerRefundLeaf(leaf)
    \/ SetEnableRoute

\* One setting of each override.
ClientOverrides ==
    \/ setDefaultRealizedLpFeePct(1)
    \/ ClearDefaultRealizedLpFeePct
    \/ setDestinationTokenForChain(10, "0xT1")
    \/ \E depositIds \in {<<1, 2>>, <<1, 0>>} : setDepositIds(depositIds)
    \/ SetLatestBlockNumber

\* Synthesis, override and update calls in any order.
NextClient ==
    \/ ClientSynthesis
    \/ ClientOverrides
    \/ UpdateSingle

SpecClient == Init /\ [][NextClient]_vars

\* The deposit-id-at-block table.
NextDepositIds ==
    \/ SetDepositIds
    \/ GetDepositIdAtBlock

SpecDepositIds == Init /\ [][NextDepositIds]_vars

----------------------------------------------------------------------------
(* Properties *)

\* The stored events of one type, in insertion order.
StoredOfType(name) == SelectSeq(events, LAMBDA e : e.event = name)

StoredDeposits == StoredOfType("V3FundsDeposited")

StoredDepositIds == {StoredDeposits[k].args.depositId : k \in 1..Len(StoredDeposits)}

SetMax(S) == CHOOSE m \in S : \A x \in S : x <= m

IsSnapshotCall(op) == op \in {"_update", "update"}

\* C1: when no depositV3 call supplies a depositId, the k-th stored deposit
\* event carries depositId k-1 and numberOfDeposits equals the number of
\* deposit calls made.
C1_UnsetIdsCountUp ==
    /\ \A k \in 1..Len(StoredDeposits) : StoredDeposits[k].args.depositId = k - 1
    /\ numberOfDeposits = Len(StoredDeposits)

C1_Witness ==
    /\ Len(StoredDeposits) = 2
    /\ StoredDeposits[2].args.depositId = 1
    /\ numberOfDeposits = 2

\* C2: a depositV3 call with a supplied depositId below numberOfDeposits
\* throws, stores no event and leaves numberOfDeposits as it was.
C2_LowDepositIdRejected ==
    [][(/\ callOp' = "depositV3"
        /\ callArgs'.depositId # Undefined
        /\ callArgs'.depositId < numberOfDeposits)
       => (/\ ~callOk'
           /\ events' = events
           /\ numberOfDeposits' = numberOfDeposits)]_vars

C2_Witness ==
    /\ callOp = "depositV3"
    /\ ~callOk
    /\ callArgs.depositId # Undefined
    /\ callArgs.depositId < numberOfDeposits
    /\ Len(events) > 0

\* C3 as stated: the snapshot has one array per requested name, and the i-th
\* holds exactly the stored events of the i-th requested type, in insertion
\* order.
C3_EveryBucketHoldsItsType ==
    IsSnapshotCall(callOp) =>
        /\ Len(callResult.events) = Len(callArgs)
        /\ \A i \in 1..Len(callArgs) :
               callResult.events[i] = StoredOfType(callArgs[i])

\* C3 amended: the snapshot has one array per requested name; the i-th holds
\* exactly the stored events of the i-th requested type, in insertion order,
\* when i is the first position of that name in the list, and is empty when
\* the name already occurs earlier in the list.
C3_FirstOccurrenceHoldsItsType ==
    IsSnapshotCall(callOp) =>
        /\ Len(callResult.events) = Len(callArgs)
        /\ \A i \in 1..Len(callArgs) :
               callResult.events[i] =
                   IF \E j \in 1..(i - 1) : callArgs[j] = callArgs[i]
                   THEN <<>>
                   ELSE StoredOfType(callArgs[i])

C3_Witness ==
    /\ callOp = "_update"
    /\ callArgs = <<"FilledV3Relay", "V3FundsDeposited">>
    /\ callResult.events[1] = <<>>
    /\ Len(callResult.events[2]) = 2
    /\ callResult.events[2][1].args.depositId < callResult.events[2][2].args.depositId

\* C4 as stated: whatever list was requested, latestDepositId is the largest
\* depositId among the deposit events synthesized so far.
C4_LatestDepositIdIsMaxForAnyList ==
    (callOp = "_update" /\ StoredDeposits # <<>>) =>
        callResult.latestDepositId = SetMax(StoredDepositIds)

\* C4 amended: when the requested list names V3FundsDeposited, latestDepositId
\* is the largest of latestDepositIdQueried and the depositIds of the deposit
\* events synthesized so far, which is the largest synthesized depositId once
\* a deposit exists; when the list does not name V3FundsDeposited it is
\* latestDepositIdQueried.
C4_LatestDepositIdIsMaxWhenRequested ==
    callOp = "_update" =>
        IF \E i \in 1..Len(callArgs) : callArgs[i] = "V3FundsDeposited"
        THEN /\ callResult.latestDepositId =
                    SetMax({latestDepositIdQueried} \cup StoredDepositIds)
             /\ StoredDeposits # <<>> =>
                    callResult.latestDepositId = SetMax(StoredDepositIds)
        ELSE callResult.latestDepositId = latestDepositIdQueried

C4_Witness ==
    /\ callOp = "_update"
    /\ callArgs = <<"FilledV3Relay", "V3FundsDeposited">>
    /\ Len(StoredDeposits) = 2
    /\ callResult.latestDepositId = 2
    /\ latestDepositIdQueried = 0

HasDecreasingPair(ids) == \E i \in 1..(Len(ids) - 1) : ids[i + 1] < ids[i]

\* C6: a setDepositIds call whose list has a decreasing adjacent pair throws
\* and leaves the deposit-id-at-block table empty.
C6_RejectedListLeavesTableEmpty ==
    (callOp = "setDepositIds" /\ HasDecreasingPair(callArgs)) =>
        /\ ~callOk
        /\ depositIdAtBlock = <<>>

\* C7: a setDepositIds call with a non-decreasing list (equal neighbours and
\* the empty list included) returns and replaces the table: afterwards
\* _getDepositIdAtBlock(i) is ids[i] at every position of the list and
\* undefined past its end.
C7_AcceptedListReplacesTable ==
    (callOp = "setDepositIds" /\ ~HasDecreasingPair(callArgs)) =>
        /\ callOk
        /\ \A blockTag \in 0..(MaxIds + 1) :
               DepositIdAtBlock(blockTag) =
                   IF blockTag < Len(callArgs) THEN callArgs[blockTag + 1]
                   ELSE Undefined

C7_Witness ==
    /\ callOp = "setDepositIds"
    /\ callOk
    /\ Len(callArgs) = 2
    /\ callArgs[1] = callArgs[2]
    /\ depositIdAtBlock = callArgs

FeeCalls == {"setDefaultRealizedLpFeePct", "clearDefaultRealizedLpFeePct"}

\* C8: a set makes the fee F the active override, a clear makes the override
\* inactive, and no other call changes that; while the override is active
\* computeRealizedLpFeePct returns F with the event's own block number and
\* the batch call one such pair per event in order; while it is inactive
\* both return what the non-mock computation returns.
C8_FeeOverrideFollowsLastCall ==
    [][/\ callOp' = "setDefaultRealizedLpFeePct" =>
              (realizedLpFeePctOverride' /\ realizedLpFeePct' = callArgs')
       /\ callOp' = "clearDefaultRealizedLpFeePct" => ~realizedLpFeePctOverride'
       /\ callOp' \notin FeeCalls =>
              UNCHANGED <<realizedLpFeePct, realizedLpFeePctOverride>>
       /\ callOp' = "computeRealizedLpFeePct" =>
              callResult' =
                  IF realizedLpFeePctOverride
                  THEN [realizedLpFeePct |-> realizedLpFeePct,
                        quoteBlock |-> callArgs'.blockNumber]
                  ELSE SuperComputeRealizedLpFeePct(callArgs')
       /\ callOp' = "batchComputeRealizedLpFeePct" =>
              /\ Len(callResult') = Len(callArgs')
              /\ \A i \in 1..Len(callArgs') :
                     callResult'[i] =
                         IF realizedLpFeePctOverride
                         THEN [realizedLpFeePct |-> realizedLpFeePct,
                               quoteBlock |-> callArgs'[i].blockNumber]
                         ELSE SuperComputeRealizedLpFeePct(callArgs'[i])]_vars

C8_Witness ==
    /\ callOp = "batchComputeRealizedLpFeePct"
    /\ realizedLpFeePctOverride
    /\ realizedLpFeePct = 2
    /\ Len(callArgs) = 2
    /\ callArgs[1].blockNumber # callArgs[2].blockNumber
    /\ callResult[1] = [realizedLpFeePct |-> 2, quoteBlock |-> callArgs[1].blockNumber]
    /\ callResult[2] = [realizedLpFeePct |-> 2, quoteBlock |-> callArgs[2].blockNumber]

\* The destination token the override gives a chain, undefined when it has none.
OverrideTokenOf(override, chain) ==
    IF chain \in DOMAIN override THEN override[chain] ELSE UndefinedStr

\* C9: a setDestinationTokenForChain call makes its token the override of its
\* chain and leaves the override of every other chain as it was; no other
\* call changes an override; getDestinationTokenForDeposit returns the
\* override of the deposit's origin chain when it has one and the default
\* resolution otherwise.
C9_DestinationTokenFollowsLastSet ==
    [][/\ callOp' = "setDestinationTokenForChain" =>
              \A chain \in DepositOriginChainIds :
                  OverrideTokenOf(destinationTokenForChainOverride', chain) =
                      IF chain = callArgs'.chainId THEN callArgs'.token
                      ELSE OverrideTokenOf(destinationTokenForChainOverride, chain)
       /\ callOp' # "setDestinationTokenForChain" =>
              UNCHANGED destinationTokenForChainOverride
       /\ callOp' = "getDestinationTokenForDeposit" =>
              callResult' =
                  IF OverrideTokenOf(destinationTokenForChainOverride,
                                     callArgs'.originChainId) # UndefinedStr
                  THEN OverrideTokenOf(destinationTokenForChainOverride,
                                       callArgs'.originChainId)
                  ELSE SuperGetDestinationTokenForDeposit(callArgs')]_vars

C9_Witness ==
    /\ callOp = "getDestinationTokenForDeposit"
    /\ callArgs.originChainId = 137
    /\ DOMAIN destinationTokenForChainOverride = OverrideChainIds
    /\ callResult = SuperGetDestinationTokenForDeposit(callArgs)

\* C10: executeRelayerRefundLeaf with a supplied chainId other than the
\* client's throws and stores no event; with chainId unset it stores one event
\* that carries the client's chain id in its args and as its first topic.
C10_RefundChainId ==
    [][callOp' = "executeRelayerRefundLeaf" =>
           /\ (callArgs'.chainId # Undefined /\ callArgs'.chainId # chainId) =>
                  (~callOk' /\ events' = events)
           /\ callArgs'.chainId = Undefined =>
                  /\ callOk'
                  /\ Len(events') = Len(events) + 1
                  /\ SubSeq(events', 1, Len(events)) = events
                  /\ events'[Len(events')].args.chainId = chainId
                  /\ events'[Len(events')].topics[1] = ToString(chainId)]_vars

C10_Witness ==
    /\ callOp = "executeRelayerRefundLeaf"
    /\ callOk
    /\ callArgs.chainId = Undefined
    /\ events[Len(events)].event = "ExecutedRelayerRefundRoot"
    /\ events[Len(events)].args.chainId = chainId
    /\ events[Len(events)].topics[1] = "1"

LastEvent == events[Len(events)]

\* C11: executeV3SlowRelayLeaf stores one FilledV3Relay event whose fill type
\* is SlowFill, whose relayer is the zero address and whose repaymentChainId
\* is 0: fillV3Relay's defaults replace none of them.
C11_SlowLeafKeepsItsFields ==
    [][callOp' = "executeV3SlowRelayLeaf" =>
           /\ callOk'
           /\ Len(events') = Len(events) + 1
           /\ events'[Len(events')].event = "FilledV3Relay"
           /\ events'[Len(events')].args.relayExecutionInfo.fillType = "SlowFill"
           /\ events'[Len(events')].args.relayer = ZERO_ADDRESS
           /\ events'[Len(events')].topics[3] = ZERO_ADDRESS
           /\ events'[Len(events')].args.repaymentChainId = 0
           /\ events'[Len(events')].args.repaymentChainId # chainId]_vars

C11_Witness ==
    /\ callOp = "executeV3SlowRelayLeaf"
    /\ callOk
    /\ LastEvent.event = "FilledV3Relay"
    /\ LastEvent.args.relayExecutionInfo.fillType = "SlowFill"
    /\ LastEvent.args.relayer = ZERO_ADDRESS
    /\ LastEvent.args.repaymentChainId = 0

\* C12 as stated: after a fillV3Relay call that leaves outputAmount unset, the
\* stored fill event carries an output amount, and it equals the event's input
\* amount.
C12_UnsetOutputAmountIsInputAmount ==
    (callOp = "fillV3Relay" /\ callOk /\ callArgs.outputAmount = Undefined) =>
        /\ LastEvent.args.outputAmount # Undefined
        /\ LastEvent.args.outputAmount = LastEvent.args.inputAmount

StoredFills == StoredOfType("FilledV3Relay")

\* C16: a fillV3Relay call that supplies no fill type stores a FastFill event,
\* one that supplies a fill type stores that type, and every stored fill
\* event carries FastFill or SlowFill.
C16_FillTypeDefaultsToFastFill ==
    /\ \A k \in 1..Len(StoredFills) :
           StoredFills[k].args.relayExecutionInfo.fillType \in FillTypes
    /\ (callOp = "fillV3Relay" /\ callOk) =>
           LastEvent.args.relayExecutionInfo.fillType =
               (IF callArgs.fillType = UndefinedStr THEN "FastFill"
                ELSE callArgs.fillType)

C16_Witness ==
    /\ callOp = "fillV3Relay"
    /\ callOk
    /\ callArgs.fillType = UndefinedStr
    /\ Len(StoredFills) = 2
    /\ StoredFills[1].args.relayExecutionInfo.fillType = "SlowFill"
    /\ StoredFills[2].args.relayExecutionInfo.fillType = "FastFill"

\* C17: numberOfDeposits is greater than the depositId of every stored deposit
\* event, the stored deposit ids increase strictly in insertion order, and
\* numberOfDeposits never decreases, whether ids are defaulted or explicit.
C17_DepositCounterAboveIncreasingIds ==
    /\ [](/\ \A k \in 1..Len(StoredDeposits) :
               StoredDeposits[k].args.depositId < numberOfDeposits
          /\ \A j, k \in 1..Len(StoredDeposits) :
               j < k => StoredDeposits[j].args.depositId < StoredDeposits[k].args.depositId)
    /\ [][numberOfDeposits' >= numberOfDeposits]_vars

C17_Witness ==
    /\ Len(StoredDeposits) = 2
    /\ StoredDeposits[1].args.depositId = 0
    /\ StoredDeposits[2].args.depositId = 2
    /\ numberOfDeposits = 3

\* C15 as stated: the searchEndBlock of an _update snapshot is the configured
\* toBlock whenever one is configured, and the event manager's block number
\* otherwise.
C15_SearchEndBlockIsConfiguredToBlock ==
    (callOp = "_update" /\ callOk) =>
        callResult.searchEndBlock =
            (IF toBlock # Undefined THEN toBlock ELSE blockNumber)

InsertionOrderBucket(stored, eventsToQuery, i) ==
    IF IndexOf(eventsToQuery, eventsToQuery[i]) = i - 1
    THEN SelectSeq(stored, LAMBDA e : e.event = eventsToQuery[i])
    ELSE <<>>

\* C18: whatever the order in which the block lookups of one _update pass
\* complete, each bucket of the snapshot lists its events in insertion order,
\* and the snapshot and the stored block map are those of a pass whose
\* lookups complete in dispatch order.
C18_CompletionOrderDoesNotMatter ==
    [][(updatePass.pc = "running" /\ updatePass'.pc = "idle") =>
           LET eventsToQuery == updatePass.eventsToQuery
               inOrder == Bucketed(updatePass.stored, eventsToQuery,
                              [events |-> [i \in 1..Len(eventsToQuery) |-> <<>>],
                               blocks |-> {}])
           IN /\ callOp' = "_update"
              /\ \A i \in 1..Len(eventsToQuery) :
                     callResult'.events[i] =
                         InsertionOrderBucket(updatePass.stored, eventsToQuery, i)
              /\ callResult'.events = inOrder.events
              /\ callResult'.latestDepositId =
                     LatestDepositId(DepositBucket(inOrder.events, eventsToQuery))
              /\ callResult'.searchEndBlock =
                     SearchEndBlock(updatePass.latestBlockSearched)
              /\ blocks' = [n \in inOrder.blocks |-> Block(n)]]_vars

\* Two lookups of one pass completed in the reverse of their dispatch order.
C18_Witness ==
    /\ callOp = "_update"
    /\ callOk
    /\ updatePass.pc = "idle"
    /\ updatePass.completed = <<2, 1>>
    /\ Len(callResult.events) = 1
    /\ callResult.events[1] = updatePass.stored
    /\ Len(updatePass.stored) = 2

SynthesisOps ==
    {"depositV3", "fillV3Relay", "speedUpV3Deposit", "requestV3SlowFill",
     "executeV3SlowRelayLeaf", "executeRelayerRefundLeaf", "setEnableRoute"}

\* C14: a synthesis call that returns appends exactly one event to the store,
\* the event it returns; and no call of any kind, synthesis, override or
\* update, modifies, removes or reorders the events stored before it.
C14_OneEventAppendedAndReturned ==
    [][/\ (callOp' \in SynthesisOps /\ callOk') =>
              /\ Len(events') = Len(events) + 1
              /\ events'[Len(events')] = callResult'
       /\ Len(events') >= Len(events)
       /\ SubSeq(events', 1, Len(events)) = events]_vars

\* Every kind of call has been made after the first event was stored.
C14_Witness ==
    /\ callOp = "setEnableRoute"
    /\ callOk
    /\ Len(events) = 2
    /\ events[1].event = "V3FundsDeposited"
    /\ events[2] = callResult
    /\ realizedLpFeePctOverride
    /\ depositIdAtBlock # <<>>
    /\ DOMAIN blocks = {1}

feeOverrideVars == <<realizedLpFeePct, realizedLpFeePctOverride>>

\* C19: each override setter changes only its own override and leaves the
\* other three overrides, numberOfDeposits and the event store as they were;
\* setLatestBlockNumber(b) leaves latestBlockSearched equal to b; and no
\* synthesis call changes latestBlockSearched.
C19_OverridesAreIndependent ==
    [][/\ callOp' \in {"setDefaultRealizedLpFeePct", "clearDefaultRealizedLpFeePct"} =>
              UNCHANGED <<destinationTokenForChainOverride, depositIdAtBlock,
                          latestBlockSearched, numberOfDeposits, storeVars>>
       /\ callOp' = "setDestinationTokenForChain" =>
              UNCHANGED <<feeOverrideVars, depositIdAtBlock,
                          latestBlockSearched, numberOfDeposits, storeVars>>
       /\ callOp' = "setDepositIds" =>
              UNCHANGED <<feeOverrideVars, destinationTokenForChainOverride,
                          latestBlockSearched, numberOfDeposits, storeVars>>
       /\ callOp' = "setLatestBlockNumber" =>
              /\ latestBlockSearched' = callArgs'
              /\ UNCHANGED <<feeOverrideVars, destinationTokenForChainOverride,
                             depositIdAtBlock, numberOfDeposits, storeVars>>
       /\ callOp' \in SynthesisOps =>
              latestBlockSearched' = latestBlockSearched]_vars

\* A synthesis call made with all four overrides set.
C19_Witness ==
    /\ callOp = "depositV3"
    /\ callOk
    /\ latestBlockSearched = 6
    /\ blockNumber = 2
    /\ realizedLpFeePctOverride
    /\ realizedLpFeePct = 1
    /\ DOMAIN destinationTokenForChainOverride = {10}
    /\ depositIdAtBlock = <<1, 2>>
    /\ numberOfDeposits = 2

BucketedBlockNumbers(eventsToQuery) ==
    {events[k].blockNumber :
         k \in {j \in 1..Len(events) :
                    \E i \in 1..Len(eventsToQuery) : eventsToQuery[i] = events[j].event}}

\* C20: an _update call leaves numberOfDeposits, the overrides, the
\* deposit-id-at-block table, latestBlockSearched and the event store as they
\* were, and leaves a block map whose entries are exactly the blocks of the
\* events it placed in a bucket: entries of earlier calls for other blocks
\* are gone.
C20_UpdateReplacesOnlyTheBlockMap ==
    [][callOp' = "_update" =>
           /\ UNCHANGED <<numberOfDeposits, overrideVars, storeVars,
                          latestDepositIdQueried, toBlock>>
           /\ DOMAIN blocks' = BucketedBlockNumbers(callArgs')
           /\ \A n \in DOMAIN blocks' : blocks'[n] = Block(n)]_vars

\* The block of a deposit bucketed by an earlier call is no longer in the map.
C20_Witness ==
    /\ callOp = "_update"
    /\ callOk
    /\ callArgs = <<"FilledV3Relay">>
    /\ Len(events) = 2
    /\ events[1].event = "V3FundsDeposited"
    /\ events[2].event = "FilledV3Relay"
    /\ DOMAIN blocks = {2}
    /\ latestBlockSearched = 5
    /\ depositIdAtBlock = <<1>>

====
